---- MODULE Spec2Model ----
(***************************************************************************)
(* The POST /ask streaming proxy of langchain-google-genai.                *)
(*                                                                         *)
(* src/src/main.py            the traced handler (RunTree + google genai)  *)
(* src/src/example_wrapper.py the untraced handler (langchain wrapper)     *)
(*                                                                         *)
(* One "run" is one request: the body that arrived, the behaviour of the   *)
(* upstream model for it, and the position of the handler / of the async   *)
(* generator `generate` that StreamingResponse iterates.  The upstream     *)
(* client, the trace recorder and the transport are the environment: the   *)
(* upstream behaviour is drawn at Init, every recorder call may raise, and *)
(* the caller may disconnect at every suspension point of the generator.   *)
(***************************************************************************)
EXTENDS Naturals, Sequences, FiniteSets, TLC

VARIABLES
    question,           \* run -> the "question" field of the request body
    upstream,           \* run -> what the upstream model does for this run
    variant,            \* run -> "main" | "wrapper" | "off"
    pc,                 \* run -> position of the handler / generator
    chunk,              \* run -> loop variable `chunk`
    idx,                \* run -> number of chunks pulled from the upstream
    full_content,       \* run -> local `full_content`
    input_tokens,       \* run -> local `input_tokens`
    output_tokens,      \* run -> local `output_tokens`
    first_token,        \* run -> local `first_token`
    exc,                \* run -> exception in flight (caught `e`, or propagated)
    out,                \* run -> frames the generator has yielded so far
    trace,              \* run -> recorder calls that returned, in order
    recorder_failures,  \* run -> number of recorder calls that raised
    stdout              \* run -> what print() wrote

vars == <<question, upstream, variant, pc, chunk, idx, full_content,
          input_tokens, output_tokens, first_token, exc, out, trace,
          recorder_failures, stdout>>

-----------------------------------------------------------------------------
(* Bounds *)

\* longest upstream chunk sequence of a single run
MaxChunks == 2
\* longest upstream chunk sequence when two runs are composed
MaxPairChunks == 2
\* longest upstream chunk sequence of each of two concurrent requests
MaxConcChunks == 2

-----------------------------------------------------------------------------
(* Values *)

\* Python's None, and a present optional value
None == <<>>
Some(v) == <<v>>

Runs == {1, 2}

\* chunk.text: absent, empty, or a fragment
Texts == {None, Some(""), Some("P"), Some("i")}
PairTexts == {None, Some(""), Some("P")}

\* chunk.usage_metadata: absent or cumulative counts
Usage(p, c) == [prompt_token_count |-> p, candidates_token_count |-> c]
Usages == {None, Some(Usage(3, 1)), Some(Usage(3, 2))}
PairUsages == {None, Some(Usage(3, 1))}

SeqsUpTo(S, n) == UNION {[1..k -> S] : k \in 0..n}

\* An upstream behaviour: whether opening the stream succeeds, the chunks it
\* yields, and whether the iteration then ends or raises.
UpstreamsOf(texts, usages, n) ==
    {u \in [opens   : BOOLEAN,
            chunks  : SeqsUpTo([text : texts, usage_metadata : usages], n),
            outcome : {"end", "raise"}] :
        ~u.opens => (u.chunks = <<>> /\ u.outcome = "raise")}

Upstreams == UpstreamsOf(Texts, Usages, MaxChunks)
PairUpstreams == UpstreamsOf(PairTexts, PairUsages, MaxPairChunks)

\* The request body's "question": absent, empty, or a text
Questions == {None, Some(""), Some("ping")}

\* Exceptions: the class `except` matches on, str(e), and the position of
\* the generator at which it was raised.
UpstreamError(at) == [class |-> "Exception", msg |-> "upstream failed", at |-> at]
RecorderError(at) == [class |-> "Exception", msg |-> "trace failed", at |-> at]
CancelledError(at) == [class |-> "BaseException", msg |-> "cancelled", at |-> at]

Upd(f, r, v) == [f EXCEPT ![r] = v]

-----------------------------------------------------------------------------
(* Pure helpers of the handlers *)

\* `question: str` of the pydantic model: a required string field.  Any
\* string is accepted, the empty one included; only an absent field fails.
Validates(q) == q # None

\* A bare `except:` / `except BaseException`: everything is caught.
CatchesBaseException(e) == e.class \in {"Exception", "BaseException"}

\* `except Exception`: the classes the handler of `generate` catches.
Catches(e) == e.class = "Exception"

\* str(e)
Str(e) == e.msg

\* The counts summed over the chunks instead of overwritten.
UpdateUsageSummed(tokens, c) ==
    IF c.usage_metadata # None
    THEN [input_tokens  |-> tokens.input_tokens
                              + c.usage_metadata[1].prompt_token_count,
          output_tokens |-> tokens.output_tokens
                              + c.usage_metadata[1].candidates_token_count]
    ELSE tokens

\* `if chunk.usage_metadata:` then overwrite both running counts.
UpdateUsage(tokens, c) ==
    IF c.usage_metadata # None
    THEN [input_tokens  |-> c.usage_metadata[1].prompt_token_count,
          output_tokens |-> c.usage_metadata[1].candidates_token_count]
    ELSE tokens

\* `text = chunk.text if chunk.text else ""`
ChunkText(c) == IF c.text # None /\ c.text[1] # "" THEN c.text[1] ELSE ""

\* The fragment put in front of the buffer instead of behind it.
AccumulatePrepended(content, text) == text \o content

\* `full_content += text`
Accumulate(content, text) == content \o text

\* f"data: {text}\n\n"
TokenFrame(text) == "data: " \o text \o "\n\n"

DoneFrame == "data: [DONE]\n\n"
ErrorFrame == "data: [ERROR]\n\n"

\* One yielded frame, with the yield statement it came from.
Event(kind, frame) == [kind |-> kind, frame |-> frame]

\* UsageMetadata(input_tokens=..., output_tokens=..., total_tokens=...)
UsageMetadata(i, o) ==
    [input_tokens |-> i, output_tokens |-> o, total_tokens |-> i + o]

\* The recorder calls of `generate`, as the recorder sees them.
CallRunTree(q) == [op |-> "RunTree", inputs |-> q]
CallPost == [op |-> "post"]
CallAddEvent == [op |-> "add_event", name |-> "new_token"]
CallEndOutputs(content, i, o) ==
    [op |-> "end", outputs |-> Some(content),
     usage_metadata |-> Some(UsageMetadata(i, o)), error |-> None]
CallEndError(e) ==
    [op |-> "end", outputs |-> None, usage_metadata |-> None,
     error |-> Some(Str(e))]
CallPatch == [op |-> "patch"]

\* Where an exception raised inside the `try:` of `generate` goes.
TryTarget(e) == IF Catches(e) THEN "except" ELSE "raised"

\* The langchain stream yields plain strings: what `chunk` is in the wrapper.
AstreamItem(c) == IF c.text = None THEN "" ELSE c.text[1]

\* f"data: {chunk}\n\n" of the wrapper
WrapperFrame(item) == "data: " \o item \o "\n\n"

NoChunk == [text |-> None, usage_metadata |-> None]

-----------------------------------------------------------------------------
(* Recorder environment: a call returns and is recorded, or raises *)

RecorderReturns(r, call) ==
    /\ trace' = Upd(trace, r, Append(trace[r], call))
    /\ UNCHANGED recorder_failures

RecorderRaises(r) ==
    /\ recorder_failures' = Upd(recorder_failures, r, recorder_failures[r] + 1)
    /\ UNCHANGED trace

inputs == <<question, upstream, variant>>
locals == <<chunk, idx, full_content, input_tokens, output_tokens, first_token>>
recorder == <<trace, recorder_failures>>

-----------------------------------------------------------------------------
(* main.py *)

\* POST /ask: the body is validated against Question, then `ask` returns the
\* StreamingResponse around a generator that has not started yet.
Ask(r) ==
    /\ variant[r] = "main"
    /\ pc[r] = "received"
    /\ pc' = Upd(pc, r, IF Validates(question[r]) THEN "created" ELSE "rejected")
    /\ UNCHANGED <<inputs, locals, exc, out, recorder, stdout>>

\* rt = RunTree(...): before the try
NewRunTree(r) ==
    /\ variant[r] = "main"
    /\ pc[r] = "created"
    /\ \/ /\ RecorderReturns(r, CallRunTree(question[r][1]))
          /\ pc' = Upd(pc, r, "post")
          /\ UNCHANGED exc
       \/ /\ RecorderRaises(r)
          /\ exc' = Upd(exc, r, Some(RecorderError(pc[r])))
          /\ pc' = Upd(pc, r, "raised")
    /\ UNCHANGED <<inputs, locals, out, stdout>>

\* The stream opened on a trace that was never posted.
PostLeftOut(r) ==
    /\ variant[r] = "main"
    /\ pc[r] = "post"
    /\ full_content' = Upd(full_content, r, "")
    /\ input_tokens' = Upd(input_tokens, r, 0)
    /\ output_tokens' = Upd(output_tokens, r, 0)
    /\ first_token' = Upd(first_token, r, None)
    /\ pc' = Upd(pc, r, "open")
    /\ UNCHANGED <<inputs, chunk, idx, exc, out, recorder, stdout>>

\* rt.post(), then the locals are initialised: before the try
Post(r) ==
    /\ variant[r] = "main"
    /\ pc[r] = "post"
    /\ \/ /\ RecorderReturns(r, CallPost)
          /\ full_content' = Upd(full_content, r, "")
          /\ input_tokens' = Upd(input_tokens, r, 0)
          /\ output_tokens' = Upd(output_tokens, r, 0)
          /\ first_token' = Upd(first_token, r, None)
          /\ pc' = Upd(pc, r, "open")
          /\ UNCHANGED exc
       \/ /\ RecorderRaises(r)
          /\ exc' = Upd(exc, r, Some(RecorderError(pc[r])))
          /\ pc' = Upd(pc, r, "raised")
          /\ UNCHANGED <<full_content, input_tokens, output_tokens, first_token>>
    /\ UNCHANGED <<inputs, chunk, idx, out, stdout>>

\* await genai_client.aio.models.generate_content_stream(...)
OpenStream(r) ==
    /\ variant[r] = "main"
    /\ pc[r] = "open"
    /\ \/ /\ upstream[r].opens
          /\ pc' = Upd(pc, r, "iter")
          /\ UNCHANGED exc
       \/ /\ ~upstream[r].opens
          /\ exc' = Upd(exc, r, Some(UpstreamError(pc[r])))
          /\ pc' = Upd(pc, r, TryTarget(UpstreamError(pc[r])))
    /\ UNCHANGED <<inputs, locals, out, recorder, stdout>>

\* async for chunk in ...: one __anext__ of the upstream
NextChunk(r) ==
    /\ variant[r] = "main"
    /\ pc[r] = "iter"
    /\ \/ /\ idx[r] < Len(upstream[r].chunks)
          /\ chunk' = Upd(chunk, r, upstream[r].chunks[idx[r] + 1])
          /\ idx' = Upd(idx, r, idx[r] + 1)
          /\ pc' = Upd(pc, r, "first")
          /\ UNCHANGED exc
       \/ /\ idx[r] = Len(upstream[r].chunks)
          /\ upstream[r].outcome = "end"
          /\ pc' = Upd(pc, r, "done")
          /\ UNCHANGED <<chunk, idx, exc>>
       \/ /\ idx[r] = Len(upstream[r].chunks)
          /\ upstream[r].outcome = "raise"
          /\ exc' = Upd(exc, r, Some(UpstreamError(pc[r])))
          /\ pc' = Upd(pc, r, TryTarget(UpstreamError(pc[r])))
          /\ UNCHANGED <<chunk, idx>>
    /\ UNCHANGED <<inputs, full_content, input_tokens, output_tokens,
                   first_token, out, recorder, stdout>>

\* The marker added for every chunk: the guard on first_token left out.
FirstTokenEveryChunk(r) ==
    /\ variant[r] = "main"
    /\ pc[r] = "first"
    /\ first_token' = Upd(first_token, r, Some(chunk[r]))
    /\ RecorderReturns(r, CallAddEvent)
    /\ pc' = Upd(pc, r, "body")
    /\ UNCHANGED <<inputs, chunk, idx, full_content, input_tokens,
                   output_tokens, out, exc, stdout>>

\* if first_token is None: first_token = chunk; rt.add_event(...)
FirstToken(r) ==
    /\ variant[r] = "main"
    /\ pc[r] = "first"
    /\ \/ /\ first_token[r] = None
          /\ first_token' = Upd(first_token, r, Some(chunk[r]))
          /\ RecorderReturns(r, CallAddEvent)
          /\ pc' = Upd(pc, r, "body")
          /\ UNCHANGED exc
       \/ /\ first_token[r] = None
          /\ first_token' = Upd(first_token, r, Some(chunk[r]))
          /\ RecorderRaises(r)
          /\ exc' = Upd(exc, r, Some(RecorderError(pc[r])))
          /\ pc' = Upd(pc, r, TryTarget(RecorderError(pc[r])))
       \/ /\ first_token[r] # None
          /\ pc' = Upd(pc, r, "body")
          /\ UNCHANGED <<first_token, recorder, exc>>
    /\ UNCHANGED <<inputs, chunk, idx, full_content, input_tokens,
                   output_tokens, out, stdout>>

\* The output buffer kept in one place for all requests in flight.
YieldTokenSharedBuffer(r) ==
    /\ variant[r] = "main"
    /\ pc[r] = "body"
    /\ LET tokens == UpdateUsage([input_tokens  |-> input_tokens[r],
                                  output_tokens |-> output_tokens[r]], chunk[r])
           text == ChunkText(chunk[r])
       IN /\ input_tokens' = Upd(input_tokens, r, tokens.input_tokens)
          /\ output_tokens' = Upd(output_tokens, r, tokens.output_tokens)
          /\ full_content' = [x \in Runs |-> Accumulate(full_content[x], text)]
          /\ out' = Upd(out, r, Append(out[r], Event("token", TokenFrame(text))))
    /\ pc' = Upd(pc, r, "yielded_token")
    /\ UNCHANGED <<inputs, chunk, idx, first_token, exc, recorder, stdout>>

\* The chunk only buffered: counted and accumulated, its frame not yielded.
YieldTokenBuffered(r) ==
    /\ variant[r] = "main"
    /\ pc[r] = "body"
    /\ LET tokens == UpdateUsage([input_tokens  |-> input_tokens[r],
                                  output_tokens |-> output_tokens[r]], chunk[r])
           text == ChunkText(chunk[r])
       IN /\ input_tokens' = Upd(input_tokens, r, tokens.input_tokens)
          /\ output_tokens' = Upd(output_tokens, r, tokens.output_tokens)
          /\ full_content' = Upd(full_content, r, Accumulate(full_content[r], text))
    /\ pc' = Upd(pc, r, "iter")
    /\ UNCHANGED <<inputs, chunk, idx, first_token, exc, out, recorder, stdout>>

\* usage counts, text, full_content, and the yield of the token frame
YieldToken(r) ==
    /\ variant[r] = "main"
    /\ pc[r] = "body"
    /\ LET tokens == UpdateUsage([input_tokens  |-> input_tokens[r],
                                  output_tokens |-> output_tokens[r]], chunk[r])
           text == ChunkText(chunk[r])
       IN /\ input_tokens' = Upd(input_tokens, r, tokens.input_tokens)
          /\ output_tokens' = Upd(output_tokens, r, tokens.output_tokens)
          /\ full_content' = Upd(full_content, r, Accumulate(full_content[r], text))
          /\ out' = Upd(out, r, Append(out[r], Event("token", TokenFrame(text))))
    /\ pc' = Upd(pc, r, "yielded_token")
    /\ UNCHANGED <<inputs, chunk, idx, first_token, exc, recorder, stdout>>

\* yield "data: [DONE]\n\n"
YieldDone(r) ==
    /\ variant[r] = "main"
    /\ pc[r] = "done"
    /\ out' = Upd(out, r, Append(out[r], Event("done", DoneFrame)))
    /\ pc' = Upd(pc, r, "yielded_done")
    /\ UNCHANGED <<inputs, locals, exc, recorder, stdout>>

\* rt.end(outputs=..., metadata=...): still inside the try
EndSuccess(r) ==
    /\ variant[r] = "main"
    /\ pc[r] = "end"
    /\ \/ /\ RecorderReturns(r, CallEndOutputs(full_content[r], input_tokens[r],
                                               output_tokens[r]))
          /\ pc' = Upd(pc, r, "patch")
          /\ UNCHANGED exc
       \/ /\ RecorderRaises(r)
          /\ exc' = Upd(exc, r, Some(RecorderError(pc[r])))
          /\ pc' = Upd(pc, r, TryTarget(RecorderError(pc[r])))
    /\ UNCHANGED <<inputs, locals, out, stdout>>

\* rt.patch(): still inside the try; then the generator is exhausted
PatchSuccess(r) ==
    /\ variant[r] = "main"
    /\ pc[r] = "patch"
    /\ \/ /\ RecorderReturns(r, CallPatch)
          /\ pc' = Upd(pc, r, "finished")
          /\ UNCHANGED exc
       \/ /\ RecorderRaises(r)
          /\ exc' = Upd(exc, r, Some(RecorderError(pc[r])))
          /\ pc' = Upd(pc, r, TryTarget(RecorderError(pc[r])))
    /\ UNCHANGED <<inputs, locals, out, stdout>>

\* except Exception as e: print(e); rt.end(error=str(e))
Except(r) ==
    /\ variant[r] = "main"
    /\ pc[r] = "except"
    /\ stdout' = Upd(stdout, r, Append(stdout[r], Str(exc[r][1])))
    /\ \/ /\ RecorderReturns(r, CallEndError(exc[r][1]))
          /\ pc' = Upd(pc, r, "patch_error")
          /\ UNCHANGED exc
       \/ /\ RecorderRaises(r)
          /\ exc' = Upd(exc, r, Some(RecorderError(pc[r])))
          /\ pc' = Upd(pc, r, "raised")
    /\ UNCHANGED <<inputs, locals, out>>

\* rt.patch() of the except clause
PatchError(r) ==
    /\ variant[r] = "main"
    /\ pc[r] = "patch_error"
    /\ \/ /\ RecorderReturns(r, CallPatch)
          /\ pc' = Upd(pc, r, "error")
          /\ UNCHANGED exc
       \/ /\ RecorderRaises(r)
          /\ exc' = Upd(exc, r, Some(RecorderError(pc[r])))
          /\ pc' = Upd(pc, r, "raised")
    /\ UNCHANGED <<inputs, locals, out, stdout>>

\* yield "data: [ERROR]\n\n"
YieldError(r) ==
    /\ variant[r] = "main"
    /\ pc[r] = "error"
    /\ out' = Upd(out, r, Append(out[r], Event("error", ErrorFrame)))
    /\ pc' = Upd(pc, r, "yielded_error")
    /\ UNCHANGED <<inputs, locals, exc, recorder, stdout>>

\* The transport asks for the next frame: the generator continues after the
\* yield it is suspended at.
Resume(r) ==
    /\ variant[r] = "main"
    /\ \/ /\ pc[r] = "yielded_token"
          /\ pc' = Upd(pc, r, "iter")
       \/ /\ pc[r] = "yielded_done"
          /\ pc' = Upd(pc, r, "end")
       \/ /\ pc[r] = "yielded_error"
          /\ pc' = Upd(pc, r, "finished")
    /\ UNCHANGED <<inputs, locals, exc, out, recorder, stdout>>

\* The caller disconnects: CancelledError / GeneratorExit is raised at the
\* await or yield the generator is suspended at.  Inside the try it meets
\* `except Exception`; at the yield of the except clause nothing catches it.
Disconnect(r) ==
    /\ variant[r] = "main"
    /\ \/ /\ pc[r] \in {"open", "iter", "yielded_token", "yielded_done"}
          /\ pc' = Upd(pc, r, TryTarget(CancelledError(pc[r])))
       \/ /\ pc[r] = "yielded_error"
          /\ pc' = Upd(pc, r, "raised")
    /\ exc' = Upd(exc, r, Some(CancelledError(pc[r])))
    /\ UNCHANGED <<inputs, locals, out, recorder, stdout>>

MainStep(r) ==
    \/ Ask(r) \/ NewRunTree(r) \/ Post(r) \/ OpenStream(r) \/ NextChunk(r)
    \/ FirstToken(r) \/ YieldToken(r) \/ YieldDone(r) \/ EndSuccess(r)
    \/ PatchSuccess(r) \/ Except(r) \/ PatchError(r) \/ YieldError(r)
    \/ Resume(r) \/ Disconnect(r)

-----------------------------------------------------------------------------
(* Specification of one request to main.py *)

\* The locals, the output and the recorder of every run before it starts.
TypeShape ==
    /\ question \in [Runs -> Questions \cup {Some("pong")}]
    /\ variant \in [Runs -> {"main", "wrapper", "off"}]
    /\ chunk = [r \in Runs |-> NoChunk]
    /\ idx = [r \in Runs |-> 0]
    /\ full_content = [r \in Runs |-> ""]
    /\ input_tokens = [r \in Runs |-> 0]
    /\ output_tokens = [r \in Runs |-> 0]
    /\ first_token = [r \in Runs |-> None]
    /\ exc = [r \in Runs |-> None]
    /\ out = [r \in Runs |-> <<>>]
    /\ trace = [r \in Runs |-> <<>>]
    /\ recorder_failures = [r \in Runs |-> 0]
    /\ stdout = [r \in Runs |-> <<>>]

\* One request to main.py; the second run does not exist.
Init ==
    /\ \E q \in Questions, u \in Upstreams :
          /\ question = (1 :> q) @@ (2 :> None)
          /\ upstream = (1 :> u) @@ (2 :> [opens |-> FALSE, chunks |-> <<>>, outcome |-> "raise"])
    /\ variant = (1 :> "main") @@ (2 :> "off")
    /\ pc = (1 :> "received") @@ (2 :> "off")
    /\ TypeShape

Next == \E r \in Runs : MainStep(r)

Spec == Init /\ [][Next]_vars

-----------------------------------------------------------------------------
(* example_wrapper.py *)

\* hasattr(chunk, "usage_metadata"): the stream's items are str objects
HasUsageMetadata(item) == FALSE

\* POST /ask of the wrapper: same Question model, same StreamingResponse
WAsk(r) ==
    /\ variant[r] = "wrapper"
    /\ pc[r] = "received"
    /\ pc' = Upd(pc, r, IF Validates(question[r]) THEN "created" ELSE "rejected")
    /\ UNCHANGED <<inputs, locals, exc, out, recorder, stdout>>

\* model = app.state.model; model.astream(input=...) builds the iterator
WStart(r) ==
    /\ variant[r] = "wrapper"
    /\ pc[r] = "created"
    /\ pc' = Upd(pc, r, "iter")
    /\ UNCHANGED <<inputs, locals, exc, out, recorder, stdout>>

\* async for chunk in model.astream(...): no try around it
WNextChunk(r) ==
    /\ variant[r] = "wrapper"
    /\ pc[r] = "iter"
    /\ \/ /\ upstream[r].opens
          /\ idx[r] < Len(upstream[r].chunks)
          /\ chunk' = Upd(chunk, r, AstreamItem(upstream[r].chunks[idx[r] + 1]))
          /\ idx' = Upd(idx, r, idx[r] + 1)
          /\ pc' = Upd(pc, r, "body")
          /\ UNCHANGED exc
       \/ /\ upstream[r].opens
          /\ idx[r] = Len(upstream[r].chunks)
          /\ upstream[r].outcome = "end"
          /\ pc' = Upd(pc, r, "done")
          /\ UNCHANGED <<chunk, idx, exc>>
       \/ /\ \/ ~upstream[r].opens
             \/ /\ idx[r] = Len(upstream[r].chunks)
                /\ upstream[r].outcome = "raise"
          /\ exc' = Upd(exc, r, Some(UpstreamError(pc[r])))
          /\ pc' = Upd(pc, r, "raised")
          /\ UNCHANGED <<chunk, idx>>
    /\ UNCHANGED <<inputs, full_content, input_tokens, output_tokens,
                   first_token, out, recorder, stdout>>

\* the usage print, and the yield of the token frame
WYieldToken(r) ==
    /\ variant[r] = "wrapper"
    /\ pc[r] = "body"
    /\ stdout' = Upd(stdout, r, IF HasUsageMetadata(chunk[r])
                                THEN Append(stdout[r], "Tokens:")
                                ELSE stdout[r])
    /\ out' = Upd(out, r, Append(out[r], Event("token", WrapperFrame(chunk[r]))))
    /\ pc' = Upd(pc, r, "yielded_token")
    /\ UNCHANGED <<inputs, locals, exc, recorder>>

\* yield "data: [DONE]\n\n"
WYieldDone(r) ==
    /\ variant[r] = "wrapper"
    /\ pc[r] = "done"
    /\ out' = Upd(out, r, Append(out[r], Event("done", DoneFrame)))
    /\ pc' = Upd(pc, r, "yielded_done")
    /\ UNCHANGED <<inputs, locals, exc, recorder, stdout>>

\* The transport asks the wrapper's generator for the next frame.
WResume(r) ==
    /\ variant[r] = "wrapper"
    /\ \/ /\ pc[r] = "yielded_token"
          /\ pc' = Upd(pc, r, "iter")
       \/ /\ pc[r] = "yielded_done"
          /\ pc' = Upd(pc, r, "finished")
    /\ UNCHANGED <<inputs, locals, exc, out, recorder, stdout>>

\* The caller disconnects from the wrapper's stream: nothing catches it.
WDisconnect(r) ==
    /\ variant[r] = "wrapper"
    /\ pc[r] \in {"iter", "yielded_token", "yielded_done"}
    /\ pc' = Upd(pc, r, "raised")
    /\ exc' = Upd(exc, r, Some(CancelledError(pc[r])))
    /\ UNCHANGED <<inputs, locals, out, recorder, stdout>>

WrapperStep(r) ==
    \/ WAsk(r) \/ WStart(r) \/ WNextChunk(r) \/ WYieldToken(r)
    \/ WYieldDone(r) \/ WResume(r) \/ WDisconnect(r)

-----------------------------------------------------------------------------
(* Two runs on the same request and the same upstream behaviour *)

\* main.py twice: the runs differ only in what the recorder does.
InitTwin ==
    /\ \E q \in Questions, u \in PairUpstreams :
          /\ question = [r \in Runs |-> q]
          /\ upstream = [r \in Runs |-> u]
    /\ variant = [r \in Runs |-> "main"]
    /\ pc = [r \in Runs |-> "received"]
    /\ TypeShape

SpecTwin == InitTwin /\ [][Next]_vars

\* main.py and example_wrapper.py side by side.
InitVariants ==
    /\ \E q \in Questions, u \in PairUpstreams :
          /\ question = [r \in Runs |-> q]
          /\ upstream = [r \in Runs |-> u]
    /\ variant = (1 :> "main") @@ (2 :> "wrapper")
    /\ pc = [r \in Runs |-> "received"]
    /\ TypeShape

NextVariants == \E r \in Runs : MainStep(r) \/ WrapperStep(r)

SpecVariants == InitVariants /\ [][NextVariants]_vars

-----------------------------------------------------------------------------
(* Two concurrent requests to main.py, each with its own question and its  *)
(* own upstream stream; both go through the one client made at startup     *)

\* The chunks the upstream may yield to each request: the two streams carry
\* different texts and different usage counts.
ConcChunks(r) ==
    IF r = 1
    THEN {[text |-> Some("P"), usage_metadata |-> None],
          [text |-> Some("i"), usage_metadata |-> Some(Usage(3, 1))]}
    ELSE {[text |-> Some("ng"), usage_metadata |-> Some(Usage(5, 2))]}

ConcUpstreams(r) ==
    {u \in [opens   : BOOLEAN,
            chunks  : SeqsUpTo(ConcChunks(r), MaxConcChunks),
            outcome : {"end", "raise"}] :
        ~u.opens => (u.chunks = <<>> /\ u.outcome = "raise")}

InitConc ==
    /\ question = (1 :> Some("ping")) @@ (2 :> Some("pong"))
    /\ \E u1 \in ConcUpstreams(1), u2 \in ConcUpstreams(2) :
          upstream = (1 :> u1) @@ (2 :> u2)
    /\ variant = [r \in Runs |-> "main"]
    /\ pc = [r \in Runs |-> "received"]
    /\ TypeShape

SpecConc == InitConc /\ [][Next]_vars

-----------------------------------------------------------------------------
(* One request to main.py whose upstream chunks may carry, as their text,  *)
(* the payloads of the terminal frames                                     *)

\* chunk.text is whatever the model generates: the texts "[DONE]" and
\* "[ERROR]" are among the strings it can be.
SentinelTexts == {Some("P"), Some("[DONE]"), Some("[ERROR]")}

SentinelUpstreams == UpstreamsOf(SentinelTexts, {None}, MaxChunks)

InitSentinel ==
    /\ \E u \in SentinelUpstreams :
          /\ question = (1 :> Some("ping")) @@ (2 :> None)
          /\ upstream = (1 :> u) @@ (2 :> [opens |-> FALSE, chunks |-> <<>>, outcome |-> "raise"])
    /\ variant = (1 :> "main") @@ (2 :> "off")
    /\ pc = (1 :> "received") @@ (2 :> "off")
    /\ TypeShape

SpecSentinel == InitSentinel /\ [][Next]_vars

-----------------------------------------------------------------------------
(* Vocabulary of the properties *)

\* The generator has ended: exhausted, or an exception left it.
Terminated(r) == pc[r] \in {"finished", "raised"}

\* The caller went away: the exception in flight is not an Exception.
Disconnected(r) == exc[r] # None /\ exc[r][1].class = "BaseException"

IsTerminal(e) == e.kind \in {"done", "error"}

NonEmpty(q) == q # None /\ q[1] # ""

\* The text an upstream chunk carries; nothing when it carries none.
Fragment(c) == IF c.text = None THEN "" ELSE c.text[1]

\* Token events for the first k chunks, in upstream order.
ExpectedTokens(chunks, k) ==
    [i \in 1..k |-> Event("token", "data: " \o Fragment(chunks[i]) \o "\n\n")]

UpstreamEnds(u) == u.opens /\ u.outcome = "end"
UpstreamRaises(u) == ~u.opens \/ u.outcome = "raise"

EndCalls(r) == {i \in DOMAIN trace[r] : trace[r][i].op = "end"}
SuccessEnds(r) == {i \in EndCalls(r) : trace[r][i].outputs # None}
FailureEnds(r) == {i \in EndCalls(r) : trace[r][i].error # None}

-----------------------------------------------------------------------------
(* Properties *)

\* C1: every stream of main.py that runs to its end, whatever the upstream
\* and the recorder do, holds exactly one terminal event (done or error),
\* and it is the last event; at no time does an event follow a terminal one.
C1_OneTerminalEventLast ==
    \A r \in Runs : variant[r] = "main" =>
        /\ \A i \in DOMAIN out[r] : IsTerminal(out[r][i]) => i = Len(out[r])
        /\ (Terminated(r) /\ ~Disconnected(r)) =>
              (out[r] # <<>> /\ IsTerminal(out[r][Len(out[r])]))

\* C2: for a non-empty question and an upstream that yields N chunks and
\* ends, the stream is exactly the N token events of the chunk texts, in
\* order (an empty or absent text gives an empty payload), then one done.
C2_TokensThenDone ==
    \A r \in Runs :
        (/\ variant[r] = "main"
         /\ Terminated(r) /\ ~Disconnected(r)
         /\ NonEmpty(question[r])
         /\ UpstreamEnds(upstream[r]))
        => out[r] = ExpectedTokens(upstream[r].chunks, Len(upstream[r].chunks))
                        \o <<Event("done", DoneFrame)>>

\* C3: for an upstream that raises after k chunks (k = 0 included, also when
\* opening the stream raises), the stream is exactly the k token events and
\* then one error event, and no done event.
C3_TokensThenError ==
    \A r \in Runs :
        (/\ variant[r] = "main"
         /\ Terminated(r) /\ ~Disconnected(r)
         /\ UpstreamRaises(upstream[r]))
        => out[r] = ExpectedTokens(upstream[r].chunks, Len(upstream[r].chunks))
                        \o <<Event("error", ErrorFrame)>>

\* C4: a recorder call that raises never changes the response.  Of two runs
\* of main.py on the same request and the same upstream behaviour, one of
\* them without any recorder failure, both emit the same events, and no
\* exception leaves the generator of the other.
C4_RecorderFailureInvisible ==
    \A a, b \in Runs :
        (/\ variant[a] = "main" /\ variant[b] = "main"
         /\ question[a] = question[b] /\ upstream[a] = upstream[b]
         /\ Terminated(a) /\ ~Disconnected(a)
         /\ Terminated(b) /\ ~Disconnected(b)
         /\ recorder_failures[b] = 0)
        => (out[a] = out[b] /\ pc[a] = "finished")

\* C5: a request whose question is empty or absent is rejected before a
\* trace is created, before the upstream is opened, and before any stream
\* starts.
C5_EmptyQuestionRejected ==
    \A r \in Runs :
        (variant[r] = "main" /\ ~NonEmpty(question[r]))
        => (/\ pc[r] \in {"received", "rejected"}
            /\ trace[r] = <<>>
            /\ idx[r] = 0
            /\ out[r] = <<>>)

\* The usage of the last chunk that carries usage; zeros when none does.
LastUsage(chunks) ==
    LET with == {i \in DOMAIN chunks : chunks[i].usage_metadata # None}
        last == CHOOSE i \in with : \A j \in with : j <= i
    IN IF with = {}
       THEN [input_tokens |-> 0, output_tokens |-> 0]
       ELSE [input_tokens  |-> chunks[last].usage_metadata[1].prompt_token_count,
             output_tokens |-> chunks[last].usage_metadata[1].candidates_token_count]

\* C6: the token counts a successful end writes to the trace are those of
\* the last upstream chunk that carried usage (0 and 0 when none did), not a
\* sum over chunks, and the total written is input + output.
C6_TraceUsageIsLastChunkUsage ==
    \A r \in Runs : variant[r] = "main" =>
        \A i \in SuccessEnds(r) :
            LET m == trace[r][i].usage_metadata[1]
                u == LastUsage(upstream[r].chunks)
            IN /\ m.input_tokens = u.input_tokens
               /\ m.output_tokens = u.output_tokens
               /\ m.total_tokens = u.input_tokens + u.output_tokens

\* A stream completed, its trace ended with outputs, after two chunks that
\* carried different usage counts.
C6_Witness ==
    \E r \in Runs :
        /\ pc[r] = "finished"
        /\ SuccessEnds(r) # {}
        /\ Len(upstream[r].chunks) = 2
        /\ upstream[r].chunks[1].usage_metadata # None
        /\ upstream[r].chunks[2].usage_metadata # None
        /\ upstream[r].chunks[1].usage_metadata # upstream[r].chunks[2].usage_metadata

\* C7: the trace of a request is ended exactly once, as success or as
\* failure, never both and never twice.
C7_FinalizedExactlyOnce ==
    \A r \in Runs : variant[r] = "main" =>
        /\ Cardinality(EndCalls(r)) <= 1
        /\ (Terminated(r) /\ ~Disconnected(r)) => Cardinality(EndCalls(r)) = 1

\* C8: main.py and example_wrapper.py emit the same events for the same
\* upstream behaviour, also when the upstream raises after k chunks: the
\* wrapper's stream too ends with exactly one done or error frame.
C8_VariantsSameStream ==
    \A a, b \in Runs :
        (/\ variant[a] = "main" /\ variant[b] = "wrapper"
         /\ question[a] = question[b] /\ upstream[a] = upstream[b]
         /\ Terminated(a) /\ ~Disconnected(a) /\ recorder_failures[a] = 0
         /\ Terminated(b) /\ ~Disconnected(b))
        => (/\ out[a] = out[b]
            /\ out[b] # <<>>
            /\ IsTerminal(out[b][Len(out[b])]))

\* The description of the failure the upstream iteration raised in run r, if
\* any: an error that was caught (and printed), or a cancellation delivered
\* while the generator awaited the upstream.
UpstreamFailure(r) ==
    IF \E i \in DOMAIN stdout[r] : stdout[r][i] = "upstream failed"
    THEN Some("upstream failed")
    ELSE IF Disconnected(r) /\ exc[r][1].at \in {"open", "iter"}
         THEN Some("cancelled")
         ELSE None

\* C9: when iterating the upstream raises (an upstream or network error, or
\* a cancellation), the trace is ended as a failure with the error's
\* description, the error event is emitted, and the generator ends normally:
\* no exception reaches the transport.
C9_UpstreamFailureSwallowed ==
    \A r \in Runs :
        (variant[r] = "main" /\ Terminated(r) /\ UpstreamFailure(r) # None)
        => (/\ pc[r] = "finished"
            /\ out[r] # <<>>
            /\ out[r][Len(out[r])] = Event("error", ErrorFrame)
            /\ \E i \in FailureEnds(r) : trace[r][i].error = UpstreamFailure(r))

\* The payload a token frame carries.
Payload(frame) ==
    CHOOSE t \in {"", "P", "i", "ping", "[DONE]", "[ERROR]"} :
        frame = "data: " \o t \o "\n\n"

RECURSIVE Concat(_)
Concat(strs) == IF strs = <<>> THEN "" ELSE strs[1] \o Concat(Tail(strs))

TokenPayloads(events) ==
    LET toks == SelectSeq(events, LAMBDA e : e.kind = "token")
    IN [i \in DOMAIN toks |-> Payload(toks[i].frame)]

\* C10: a trace is ended as success only after the done event was emitted
\* and the upstream ended normally with all N chunks consumed, and the output
\* it records is the concatenation, in arrival order, of the N chunk texts:
\* the concatenation of the payloads of the token events emitted.
C10_DoneThenSuccessWithFullOutput ==
    \A r \in Runs : variant[r] = "main" =>
        \A i \in SuccessEnds(r) :
            /\ \E j \in DOMAIN out[r] : out[r][j] = Event("done", DoneFrame)
            /\ UpstreamEnds(upstream[r])
            /\ idx[r] = Len(upstream[r].chunks)
            /\ trace[r][i].outputs =
                  Some(Concat([k \in DOMAIN upstream[r].chunks |->
                                   Fragment(upstream[r].chunks[k])]))
            /\ trace[r][i].outputs = Some(Concat(TokenPayloads(out[r])))
            /\ Len(TokenPayloads(out[r])) = Len(upstream[r].chunks)

\* A trace ended as success after two chunks with different, non-empty texts.
C10_Witness ==
    \E r \in Runs :
        /\ SuccessEnds(r) # {}
        /\ Len(upstream[r].chunks) = 2
        /\ upstream[r].chunks[1].text = Some("P")
        /\ upstream[r].chunks[2].text = Some("i")

AddEvents(r) == {i \in DOMAIN trace[r] : trace[r][i].op = "add_event"}
TokenCount(r) == Cardinality({i \in DOMAIN out[r] : out[r][i].kind = "token"})

\* C11, in every state: at most one first-token marker; none while no chunk
\* was received; when the first chunk reaches the code that emits its token,
\* the marker is recorded and no token was emitted yet.
C11_MarkerState ==
    \A r \in Runs : variant[r] = "main" =>
        /\ Cardinality(AddEvents(r)) <= 1
        /\ idx[r] = 0 => AddEvents(r) = {}
        /\ (pc[r] = "body" /\ idx[r] = 1) =>
              (Cardinality(AddEvents(r)) = 1 /\ TokenCount(r) = 0)
        /\ TokenCount(r) >= 1 => Cardinality(AddEvents(r)) = 1

\* C11, in every step: a marker is added only while the first chunk is the
\* current one and before its token event, never for a later chunk.
C11_MarkerStep ==
    \A r \in Runs :
        AddEvents(r)' # AddEvents(r) => (idx[r] = 1 /\ TokenCount(r) = 0)

\* C11: the first-token marker is added to the trace at most once per call,
\* when the first chunk is received, whatever its content, and before that
\* chunk's token event; never for a later chunk; not at all for zero chunks.
C11_FirstTokenMarkerOnce == []C11_MarkerState /\ [][C11_MarkerStep]_vars

\* A stream of two chunks, the first without text, ran to its end with the
\* marker recorded once.
C11_Witness ==
    \E r \in Runs :
        /\ pc[r] = "finished"
        /\ Len(upstream[r].chunks) = 2
        /\ upstream[r].chunks[1].text = None
        /\ TokenCount(r) = 2
        /\ Cardinality(AddEvents(r)) = 1

\* The lifecycle phase a position of the handler belongs to.  Completed and
\* Failed are both the last rank; which of them it is, is C7's matter.
Phase(r) ==
    CASE pc[r] \in {"off", "received", "created", "post", "rejected"} -> "Idle"
      [] pc[r] = "open" -> "TraceStarted"
      [] pc[r] \in {"iter", "first", "body", "yielded_token", "done",
                    "yielded_done"} -> "Streaming"
      [] pc[r] \in {"end", "patch"} -> "Completed"
      [] pc[r] \in {"except", "patch_error", "error", "yielded_error",
                    "raised"} -> "Failed"
      [] pc[r] = "finished" -> IF FailureEnds(r) = {} THEN "Completed" ELSE "Failed"

Rank(phase) ==
    CASE phase = "Idle" -> 0
      [] phase = "TraceStarted" -> 1
      [] phase = "Streaming" -> 2
      [] phase \in {"Completed", "Failed"} -> 3

\* C12, in every state: when the upstream is about to be opened the trace
\* has been created and posted and nothing else has happened; chunks and
\* events exist only behind a created and posted trace; a token event exists
\* only behind an upstream that opened and yielded a chunk.
C12_OrderState ==
    \A r \in Runs : variant[r] = "main" =>
        /\ pc[r] = "open" =>
              /\ trace[r] = <<CallRunTree(question[r][1]), CallPost>>
              /\ idx[r] = 0
              /\ out[r] = <<>>
        /\ (idx[r] >= 1 \/ out[r] # <<>>) =>
              /\ Len(trace[r]) >= 2
              /\ trace[r][1] = CallRunTree(question[r][1])
              /\ trace[r][2] = CallPost
        /\ TokenCount(r) >= 1 => (upstream[r].opens /\ idx[r] >= 1)

\* C12, in every step: the phase never goes back; TraceStarted is entered
\* from Idle only, Streaming from TraceStarted only, Completed from Streaming
\* only; a token event is emitted in Streaming only.
C12_OrderStep ==
    \A r \in Runs :
        /\ Rank(Phase(r)') >= Rank(Phase(r))
        /\ (Phase(r)' = "TraceStarted" /\ Phase(r) # "TraceStarted") => Phase(r) = "Idle"
        /\ (Phase(r)' = "Streaming" /\ Phase(r) # "Streaming") => Phase(r) = "TraceStarted"
        /\ (Phase(r)' = "Completed" /\ Phase(r) # "Completed") => Phase(r) = "Streaming"
        /\ TokenCount(r)' # TokenCount(r) => (Phase(r) = "Streaming" /\ Phase(r)' = "Streaming")

\* C12: within one request the order is Idle, TraceStarted, Streaming, then
\* Completed or Failed: the trace is created and started strictly before the
\* upstream is opened, and the upstream is opened strictly before any token
\* event is emitted.
C12_LifecycleOrder == []C12_OrderState /\ [][C12_OrderStep]_vars

\* A stream went through every phase: two tokens, then completed.
C12_Witness ==
    \E r \in Runs :
        /\ pc[r] = "finished"
        /\ Phase(r) = "Completed"
        /\ TokenCount(r) = 2
        /\ SuccessEnds(r) # {}

\* C13, in every state: the token events emitted are as many as the chunks
\* pulled, or one fewer; whenever the next chunk is about to be requested
\* they are as many.
C13_CadenceState ==
    \A r \in Runs : variant[r] = "main" =>
        /\ (TokenCount(r) = idx[r] \/ TokenCount(r) + 1 = idx[r])
        /\ pc[r] = "iter" => TokenCount(r) = idx[r]
        /\ pc[r] \in {"first", "body"} => TokenCount(r) + 1 = idx[r]
        /\ pc[r] = "yielded_token" => TokenCount(r) = idx[r]

\* C13, in every step: one chunk is pulled at a time, and only when the
\* token of the chunk before it is out; one token is emitted at a time, and
\* it is the token of the chunk just pulled.
C13_CadenceStep ==
    \A r \in Runs : variant[r] = "main" =>
        /\ (idx[r]' = idx[r] \/ idx[r]' = idx[r] + 1)
        /\ idx[r]' = idx[r] + 1 => TokenCount(r) = idx[r]
        /\ (TokenCount(r)' = TokenCount(r) \/ TokenCount(r)' = TokenCount(r) + 1)
        /\ TokenCount(r)' = TokenCount(r) + 1 =>
              /\ TokenCount(r)' = idx[r]
              /\ out[r]' = Append(out[r],
                     Event("token", "data: " \o Fragment(upstream[r].chunks[idx[r]]) \o "\n\n"))

\* C13: chunks are consumed one at a time, without batching or buffering:
\* the token event of chunk i is emitted before chunk i+1 is requested, so
\* the tokens emitted equal the chunks pulled, or are one fewer.
C13_OneChunkAtATime == []C13_CadenceState /\ [][C13_CadenceStep]_vars

\* The second chunk is about to be requested and the first token is out.
C13_Witness ==
    \E r \in Runs :
        /\ pc[r] = "iter"
        /\ idx[r] = 1
        /\ TokenCount(r) = 1
        /\ Len(upstream[r].chunks) = 2

\* C14, in every state: a generator the caller disconnected from is dead;
\* when the disconnect came before the generator left its try (while it
\* awaited the upstream or was suspended at a token or done frame) the trace
\* has not been ended at all, so neither twice nor as success.
C14_DisconnectState ==
    \A r \in Runs : (variant[r] = "main" /\ Disconnected(r)) =>
        /\ pc[r] = "raised"
        /\ exc[r][1].at \in {"open", "iter", "yielded_token", "yielded_done"} =>
              EndCalls(r) = {}

\* C14, in every step: after the disconnect no chunk is pulled, no event is
\* emitted and no recorder call is made.
C14_DisconnectStep ==
    \A r \in Runs : (variant[r] = "main" /\ Disconnected(r)) =>
        /\ idx[r]' = idx[r]
        /\ out[r]' = out[r]
        /\ trace[r]' = trace[r]
        /\ pc[r]' = pc[r]

\* C14: when the caller disconnects after any number of token events, the
\* handler pulls no further chunk and emits no further event, and the trace
\* is not ended twice nor as success on account of it.
C14_DisconnectStopsTheStream ==
    []C14_DisconnectState /\ [][C14_DisconnectStep]_vars

\* The caller disconnected at the first token frame of a two-chunk stream.
C14_Witness ==
    \E r \in Runs :
        /\ Disconnected(r)
        /\ exc[r][1].at = "yielded_token"
        /\ TokenCount(r) = 1
        /\ idx[r] = 1
        /\ Len(upstream[r].chunks) = 2

\* Everything one request owns.
RunState(r) ==
    <<pc[r], chunk[r], idx[r], full_content[r], input_tokens[r],
      output_tokens[r], first_token[r], exc[r], out[r], trace[r],
      recorder_failures[r], stdout[r]>>

Fragments(chunks, k) == [i \in 1..k |-> Fragment(chunks[i])]

\* C15, in every state: what a request has emitted, accumulated, counted and
\* recorded is a function of its own question, its own upstream chunks and
\* how far it has come; nothing of the other request is in it.
C15_OwnState ==
    \A r \in Runs : variant[r] = "main" =>
        LET own == upstream[r].chunks
            k == TokenCount(r)
        IN /\ k <= Len(own)
           /\ SelectSeq(out[r], LAMBDA e : e.kind = "token") = ExpectedTokens(own, k)
           /\ full_content[r] = Concat(Fragments(own, k))
           /\ input_tokens[r] = LastUsage(SubSeq(own, 1, k)).input_tokens
           /\ output_tokens[r] = LastUsage(SubSeq(own, 1, k)).output_tokens
           /\ trace[r] # <<>> => trace[r][1] = CallRunTree(question[r][1])
           /\ \A i \in SuccessEnds(r) :
                 trace[r][i] = CallEndOutputs(Concat(Fragments(own, Len(own))),
                                              LastUsage(own).input_tokens,
                                              LastUsage(own).output_tokens)

\* C15, in every step: one request moves, and everything the other request
\* owns stays as it is.
C15_OwnStep ==
    \E a \in Runs : \A b \in Runs \ {a} : RunState(b)' = RunState(b)

\* C15: concurrent requests do not interfere: under every interleaving of
\* two requests in flight, each one's events, output text, token totals and
\* trace depend on its own question and its own upstream chunks only.
C15_NoInterference == []C15_OwnState /\ [][C15_OwnStep]_vars

\* Both requests are mid-stream at once, on different upstream chunks.
C15_Witness ==
    /\ pc[1] = "yielded_token" /\ pc[2] = "yielded_token"
    /\ idx[1] = 1 /\ idx[2] = 1
    /\ upstream[1].chunks[1] # upstream[2].chunks[1]
    /\ full_content[1] = "P" /\ full_content[2] = "ng"

\* C16: on the wire the terminal frames are unambiguous: the frame
\* "data: [DONE]\n\n" occurs only as the last frame of a stream that
\* completed, "data: [ERROR]\n\n" only as the last frame of a stream that
\* failed, and no token event, whatever its chunk text (the texts "[DONE]"
\* and "[ERROR]" included), is rendered as a frame equal to a terminal frame.
C16_TerminalFramesUnambiguous ==
    \A r \in Runs : variant[r] = "main" =>
        \A i \in DOMAIN out[r] :
            /\ out[r][i].frame = DoneFrame =>
                  (out[r][i].kind = "done" /\ i = Len(out[r]))
            /\ out[r][i].frame = ErrorFrame =>
                  (out[r][i].kind = "error" /\ i = Len(out[r]))
            /\ out[r][i].kind = "token" =>
                  out[r][i].frame \notin {DoneFrame, ErrorFrame}

-----------------------------------------------------------------------------
(* What remains of C1, C2, C3 and C7 in the runs where no recorder call raises *)

\* Without a recorder failure a stream that runs to its end has exactly one
\* terminal event, and it is last.
OneTerminalEventLastWithoutRecorderFailure ==
    \A r \in Runs :
        (variant[r] = "main" /\ recorder_failures[r] = 0) =>
            /\ \A i \in DOMAIN out[r] : IsTerminal(out[r][i]) => i = Len(out[r])
            /\ (Terminated(r) /\ ~Disconnected(r)) =>
                  (out[r] # <<>> /\ IsTerminal(out[r][Len(out[r])]))

\* Without a recorder failure N chunks and a normal end give N tokens, done.
TokensThenDoneWithoutRecorderFailure ==
    \A r \in Runs :
        (/\ variant[r] = "main" /\ recorder_failures[r] = 0
         /\ Terminated(r) /\ ~Disconnected(r)
         /\ UpstreamEnds(upstream[r]))
        => out[r] = ExpectedTokens(upstream[r].chunks, Len(upstream[r].chunks))
                        \o <<Event("done", DoneFrame)>>

\* Without a recorder failure k chunks and a raise give k tokens, error.
TokensThenErrorWithoutRecorderFailure ==
    \A r \in Runs :
        (/\ variant[r] = "main" /\ recorder_failures[r] = 0
         /\ Terminated(r) /\ ~Disconnected(r)
         /\ UpstreamRaises(upstream[r]))
        => out[r] = ExpectedTokens(upstream[r].chunks, Len(upstream[r].chunks))
                        \o <<Event("error", ErrorFrame)>>

\* Without a recorder failure the trace is ended once and only once.
FinalizedExactlyOnceWithoutRecorderFailure ==
    \A r \in Runs :
        (variant[r] = "main" /\ recorder_failures[r] = 0) =>
            /\ Cardinality(EndCalls(r)) <= 1
            /\ (Terminated(r) /\ ~Disconnected(r)) => Cardinality(EndCalls(r)) = 1

\* What remains of C16 for the chunk texts that are not a terminal payload:
\* no token frame equals a terminal frame, a done frame is a done event and
\* an error frame is an error event and the last one.
TerminalFramesUnambiguousForOtherTexts ==
    \A r \in Runs : variant[r] = "main" =>
        \A i \in DOMAIN out[r] :
            /\ out[r][i].kind = "token" =>
                  out[r][i].frame \notin {DoneFrame, ErrorFrame}
            /\ out[r][i].frame = DoneFrame => out[r][i].kind = "done"
            /\ out[r][i].frame = ErrorFrame =>
                  (out[r][i].kind = "error" /\ i = Len(out[r]))

====
